---- MODULE Spec2Model ----
(***************************************************************************)
(* Dictionary compression (storage/dictionary_compression.cpp) and the     *)
(* chunk-pruning table access operator (operators/get_table.cpp).          *)
(*                                                                         *)
(* Values of every element type T are modelled as naturals with their      *)
(* natural order; a column carries its DataType tag next to its payload.   *)
(***************************************************************************)
EXTENDS Integers, Sequences, FiniteSets, TLC

VARIABLES
  \* -- one column
  column,      \* the column handed to DictionaryCompression::compress_column
  data_type,   \* the DataType it is called with
  out,         \* its result (out_column, stats) or the error thrown; None before
  fitted,      \* the last direct _create_fitted_attribute_vector call, or None
  \* -- a table and the compression entry points
  table,       \* [column_types, chunks]: the Table the entry points work on
  is_debug,    \* whether the build compiles DebugAssert in
  last,        \* the last entry point call: its arguments, the table before
               \* it, the error it threw and what it returned; None before
  \* -- a thread inside compress_chunk and a thread reading the chunk
  worker,      \* [pc, chunk_id, column_id, column_stats, error] of compress_chunk
  observed,    \* what the reading thread saw last, None before its first read
  \* -- the GetTable operator
  storage,     \* the table StorageManager holds under GetTable::_name
  _excluded_chunks,  \* GetTable::_excluded_chunks, a std::optional
  results      \* the tables _on_execute returned since _excluded_chunks was
               \* last set, oldest first

columnVars == <<column, data_type, out, fitted>>
tableVars == <<table, is_debug, last>>
threadVars == <<worker, observed>>
getTableVars == <<storage, _excluded_chunks, results>>
vars == <<columnVars, tableVars, threadVars, getTableVars>>

\* The empty std::optional / null shared_ptr.
None == [kind |-> "none"]

\* ------------------------------------------------------------------ bounds
MaxRows == 3      \* rows of an enumerated value column
MaxValue == 2     \* enumerated values are 0..MaxValue
MaxChunks == 2    \* chunks of a table handed to the compression entry points
MaxColumns == 2   \* columns of such a table
MaxChunkIds == 1  \* length of the chunk id list given to compress_chunks
MaxStoredChunks == 3  \* chunks of the table GetTable reads
MaxExcluded == 3  \* length of the list given to set_excluded_chunks
MaxExecutions == 2  \* executions of GetTable per exclusion list

\* ------------------------------------------------------- program constants
UINT8_MAX == 255
UINT16_MAX == 65535
NULL_VALUE_ID == 0

Values == 0..MaxValue

DataTypes == {"Int", "Long"}

\* Message of the Assert of line 45 (Assert throws in every build).
AssertColumn == [what |-> "Column is either already compressed or type mismatches."]

\* Message of the DebugAssert of lines 128-129 (compiled in debug builds only).
AssertColumnCount ==
  [what |-> "Number of column types does not match the chunk's column count."]

\* Message of the Assert of line 154.
AssertChunkId == [what |-> "Chunk with given ID does not exist."]

\* The process dying on a read past the end of column_types (line 135), and
\* the marker of that outcome among the values such a read may yield.
Segfault == [what |-> "Segmentation fault"]
Unreadable == "unreadable"

\* No ColumnID / ChunkID.
NoId == 0 - 1

\* ---------------------------------------------------------------- helpers
Range(s) == {s[i] : i \in DOMAIN s}

SeqsUpTo(S, n) == UNION {[1..k -> S] : k \in 0..n}

\* Op(v) with v evaluated once, before Op is applied (a local variable).
With(v, Op(_)) == CHOOSE r \in {Op(x) : x \in {v}} : TRUE

\* ----------------------------------------------------- value column (input)
\* A ValueColumn<T>: values(), is_nullable(), null_values().
ValueColumn(type, values, nullable, null_values) ==
  [kind |-> "value", type |-> type, values |-> values,
   nullable |-> nullable, null_values |-> null_values]

\* ------------------------------------------------------- compress_column
\* PartitionStep with the swap of line 61 left out.
PartitionStepNoSwap(st, i) ==
  IF st.null_values[i]
  THEN [st EXCEPT !.erase_from_here = st.erase_from_here - 1]
  ELSE st

\* Line 59-63, one iteration of the loop at row i (dict_it and null_it both
\* point at row i): a null row's value is swapped with the element just
\* before erase_from_here_it, which moves one to the left.
PartitionStep(st, i) ==
  IF st.null_values[i]
  THEN LET e == st.erase_from_here - 1
       IN [st EXCEPT !.erase_from_here = e,
                     !.dictionary = [st.dictionary EXCEPT ![i] = st.dictionary[e],
                                                          ![e] = st.dictionary[i]]]
  ELSE st

\* The loop of line 59 over rows hi, hi-1, ..., lo in that order (the range
\* is halved so that the evaluation depth stays logarithmic).
RECURSIVE PartitionLoop(_, _, _)
PartitionLoop(st, lo, hi) ==
  IF hi < lo THEN st
  ELSE IF lo = hi THEN PartitionStep(st, lo)
  ELSE LET mid == (lo + hi) \div 2
       IN With(PartitionLoop(st, mid + 1, hi),
               LAMBDA upper : PartitionLoop(upper, lo, mid))

\* Lines 57-66: partition from the tail, then erase [erase_from_here_it, end).
RemoveNulls(values, null_values) ==
  LET st == PartitionLoop([dictionary |-> values, null_values |-> null_values,
                           erase_from_here |-> Len(values) + 1],
                          1, Len(values))
  IN SubSeq(st.dictionary, 1, st.erase_from_here - 1)

\* Number of elements of the ascending sequence b that are less than x.
RECURSIVE CountLess(_, _, _, _)
CountLess(b, x, first, count) ==
  IF count = 0 THEN first
  ELSE LET step == count \div 2
       IN IF b[first + step + 1] < x
          THEN CountLess(b, x, first + step + 1, count - (step + 1))
          ELSE CountLess(b, x, first, step)

\* Merge of two ascending sequences, split at the middle element of a.
RECURSIVE Merge(_, _)
Merge(a, b) ==
  IF a = <<>> THEN b
  ELSE IF b = <<>> THEN a
  ELSE LET m == (Len(a) + 1) \div 2
           p == CountLess(b, a[m], 0, Len(b))
       IN Merge(SubSeq(a, 1, m - 1), SubSeq(b, 1, p)) \o <<a[m]>>
          \o Merge(SubSeq(a, m + 1, Len(a)), SubSeq(b, p + 1, Len(b)))

\* std::sort (line 69): ascending by operator<.
RECURSIVE Sort(_)
Sort(s) ==
  IF Len(s) <= 1 THEN s
  ELSE LET h == Len(s) \div 2
       IN Merge(Sort(SubSeq(s, 1, h)), Sort(SubSeq(s, h + 1, Len(s))))

\* std::unique + erase (line 70): of every run of equal adjacent elements
\* only the first is kept.
RECURSIVE Unique(_)
Unique(s) ==
  IF Len(s) <= 1 THEN s
  ELSE LET h == Len(s) \div 2
           l == Unique(SubSeq(s, 1, h))
           r == Unique(SubSeq(s, h + 1, Len(s)))
       IN IF l[Len(l)] = r[1] THEN l \o Tail(r) ELSE l \o r

\* std::lower_bound (line 116): index (0-based) of the first element that is
\* not less than value, by binary search over [first, first + count).
RECURSIVE LowerBound(_, _, _, _)
LowerBound(dictionary, value, first, count) ==
  IF count = 0 THEN first
  ELSE LET step == count \div 2
           it == first + step
       IN IF dictionary[it + 1] < value
          THEN LowerBound(dictionary, value, it + 1, count - (step + 1))
          ELSE LowerBound(dictionary, value, first, step)

\* Lines 114-117.
get_value_id(dictionary, value) ==
  LowerBound(dictionary, value, 0, Len(dictionary))

\* _create_fitted_attribute_vector with < for <= in both comparisons.
create_fitted_strict(unique_values_count, size) ==
  [width |-> IF unique_values_count < UINT8_MAX THEN 1
             ELSE IF unique_values_count < UINT16_MAX THEN 2
             ELSE 4,
   ids |-> [i \in 1..size |-> 0]]

\* Lines 27-35: the width in bytes of the FittedAttributeVector chosen, all
\* `size` positions zero-initialised.
_create_fitted_attribute_vector(unique_values_count, size) ==
  [width |-> IF unique_values_count <= UINT8_MAX THEN 1
             ELSE IF unique_values_count <= UINT16_MAX THEN 2
             ELSE 4,
   ids |-> [i \in 1..size |-> 0]]

\* Lines 76-102: one value id per row.
FillAttributeVector(attribute_vector, dictionary, vc) ==
  [attribute_vector EXCEPT !.ids =
     [i \in 1..Len(vc.values) |->
        IF vc.nullable /\ vc.null_values[i]
        THEN NULL_VALUE_ID
        ELSE get_value_id(dictionary, vc.values[i])]]

\* MakeStats reading begin() for both bounds.
MakeStatsBeginTwice(dictionary) ==
  IF dictionary = <<>> THEN None
  ELSE [min |-> dictionary[1], max |-> dictionary[1]]

\* Lines 104-108.
MakeStats(dictionary) ==
  IF dictionary = <<>> THEN None
  ELSE [min |-> dictionary[1], max |-> dictionary[Len(dictionary)]]

\* Lines 49-111 for a column that passed the cast of line 43.
CompressValueColumn(vc) ==
  LET scratch == IF vc.nullable THEN RemoveNulls(vc.values, vc.null_values)
                 ELSE vc.values
      dictionary == Unique(Sort(scratch))
      av == _create_fitted_attribute_vector(Len(dictionary) + 1, Len(vc.values))
  IN [column |-> [kind |-> "dict", type |-> vc.type, dictionary |-> dictionary,
                  attribute_vector |-> FillAttributeVector(av, dictionary, vc)],
      stats |-> MakeStats(dictionary)]

\* compress_column whose cast looks at the element type only: a dictionary
\* column of the right type is passed through without statistics.
compress_column_any_kind(type, col) ==
  IF col.type # type THEN [error |-> AssertColumn]
  ELSE IF col.kind = "value" THEN CompressValueColumn(col)
  ELSE [column |-> col, stats |-> None]

\* Lines 41-45 and 120-124: the compressor is chosen by data_type; the cast
\* of line 43 yields nullptr unless the column is a ValueColumn of that type.
compress_column(type, col) ==
  IF col.kind = "value" /\ col.type = type
  THEN CompressValueColumn(col)
  ELSE [error |-> AssertColumn]

IsError(r) == "error" \in DOMAIN r

\* --------------------------------------------------------- compress_chunk
\* What column_types[column_id] (line 135) yields: the element when column_id
\* is in range; past the end the read is undefined, and `past_end` holds what
\* this execution gets there, some DataType or the process dying.
ColumnTypeAt(column_types, column_id, past_end) ==
  IF column_id < Len(column_types)
  THEN column_types[column_id + 1]
  ELSE past_end[column_id + 1]   \* undefined behaviour

\* Lines 134-137, one iteration of the loop: compress the column, replace it
\* in the chunk, keep its statistics. An error thrown by compress_column
\* leaves the loop at once. st = [chunk, column_stats, error, failed_column].
CompressChunkStep(st, column_types, column_id, past_end) ==
  LET type == ColumnTypeAt(column_types, column_id, past_end)
  IN With(IF type = Unreadable THEN [error |-> Segfault]
          ELSE compress_column(type, st.chunk.columns[column_id + 1]),
          LAMBDA r :
            IF IsError(r)
            THEN [st EXCEPT !.error = r.error, !.failed_column = column_id]
            ELSE [st EXCEPT !.chunk.columns[column_id + 1] = r.column,
                            !.column_stats = Append(st.column_stats, r.stats)])

\* The loop of line 133 from column_id on.
RECURSIVE CompressChunkLoop(_, _, _, _)
CompressChunkLoop(st, column_types, column_id, past_end) ==
  IF st.error # None \/ column_id >= Len(st.chunk.columns) THEN st
  ELSE With(CompressChunkStep(st, column_types, column_id, past_end),
            LAMBDA next : CompressChunkLoop(next, column_types, column_id + 1, past_end))

\* Lines 140-142.
ShrinkMvcc(chunk) ==
  IF chunk.mvcc = "none" THEN chunk ELSE [chunk EXCEPT !.mvcc = "shrunk"]

\* Lines 144-145.
SetStatistics(chunk, column_stats) ==
  [chunk EXCEPT !.statistics = [column_stats |-> column_stats]]

\* Lines 126-148: [chunk, error, failed_column, ret], chunk being the chunk
\* as the call leaves it, error None and failed_column NoId unless it threw, ret
\* the ChunkStatistics returned.
compress_chunk(column_types, chunk, debug, past_end) ==
  LET st0 == [chunk |-> chunk, column_stats |-> <<>>, error |-> None,
              failed_column |-> NoId]
  IN IF debug /\ Len(column_types) # Len(chunk.columns)
     THEN [chunk |-> chunk, error |-> AssertColumnCount, failed_column |-> NoId,
           ret |-> None]
     ELSE With(CompressChunkLoop(st0, column_types, 0, past_end),
               LAMBDA st :
                 IF st.error # None
                 THEN [chunk |-> st.chunk, error |-> st.error,
                       failed_column |-> st.failed_column, ret |-> None]
                 ELSE With(SetStatistics(ShrinkMvcc(st.chunk), st.column_stats),
                           LAMBDA done :
                             [chunk |-> done, error |-> None,
                              failed_column |-> NoId, ret |-> done.statistics]))

\* Lines 153-157 and 164-167, the loop over chunk ids (0-based) shared by
\* compress_chunks and compress_table; check_ids is the Assert of line 154.
\* st = [table, chunk_stats, error, failed_chunk, failed_column].
RECURSIVE CompressChunkIds(_, _, _, _, _)
CompressChunkIds(st, chunk_ids, check_ids, debug, past_end) ==
  IF st.error # None \/ chunk_ids = <<>> THEN st
  ELSE LET chunk_id == Head(chunk_ids)
       IN IF check_ids /\ ~(chunk_id < Len(st.table.chunks))
          THEN [st EXCEPT !.error = AssertChunkId, !.failed_chunk = chunk_id]
          ELSE With(compress_chunk(st.table.column_types,
                                   st.table.chunks[chunk_id + 1], debug, past_end),
                    LAMBDA r :
                      With(IF r.error # None
                           THEN [st EXCEPT !.table.chunks[chunk_id + 1] = r.chunk,
                                           !.error = r.error,
                                           !.failed_chunk = chunk_id,
                                           !.failed_column = r.failed_column]
                           ELSE [st EXCEPT !.table.chunks[chunk_id + 1] = r.chunk,
                                           !.chunk_stats = Append(st.chunk_stats, r.ret)],
                           LAMBDA next :
                             CompressChunkIds(next, Tail(chunk_ids), check_ids,
                                              debug, past_end)))

TableCall(tbl) ==
  [table |-> tbl, chunk_stats |-> <<>>, error |-> None, failed_chunk |-> NoId,
   failed_column |-> NoId]

\* Lines 150-160.
compress_chunks(tbl, chunk_ids, debug, past_end) ==
  CompressChunkIds(TableCall(tbl), chunk_ids, TRUE, debug, past_end)

\* Lines 162-170.
compress_table(tbl, debug, past_end) ==
  CompressChunkIds(TableCall(tbl), [i \in 1..Len(tbl.chunks) |-> i - 1], FALSE,
                   debug, past_end)

\* ------------------------------------------ specification: one column
\* Every value column of at most MaxRows rows over Values, nullable or not
\* (a null row may hold any value), plus columns of n distinct values around
\* the first width boundary.
EnumeratedColumns ==
  {ValueColumn(t, v, FALSE, <<>>) : t \in DataTypes, v \in SeqsUpTo(Values, MaxRows)}
  \cup
  UNION {{ValueColumn(t, v, TRUE, n) : t \in DataTypes, n \in [1..Len(v) -> BOOLEAN]}
         : v \in SeqsUpTo(Values, MaxRows)}

WideSizes == {UINT8_MAX - 1, UINT8_MAX, UINT8_MAX + 1}

WideColumns ==
  {ValueColumn("Int", [i \in 1..n |-> n - i], FALSE, <<>>) : n \in WideSizes}
  \cup
  {ValueColumn("Int", [i \in 1..n |-> n - i], TRUE, [i \in 1..n |-> i = 2])
     : n \in WideSizes}

CountInputs ==
  {0, 1, UINT8_MAX - 1, UINT8_MAX, UINT8_MAX + 1,
   UINT16_MAX - 1, UINT16_MAX, UINT16_MAX + 1}

InitColumn ==
  /\ column \in EnumeratedColumns \cup WideColumns
  /\ data_type \in DataTypes
  /\ out = None
  /\ fitted = None
  /\ table = None /\ is_debug = FALSE /\ last = None
  /\ worker = None /\ observed = None
  /\ storage = None /\ _excluded_chunks = None /\ results = None

\* DictionaryCompression::compress_column(data_type, column).
CompressColumn ==
  /\ out = None
  /\ out' = compress_column(data_type, column)
  /\ UNCHANGED <<column, data_type, fitted, tableVars, threadVars, getTableVars>>

\* The caller hands the produced dictionary column to compress_column again.
Recompress ==
  /\ out # None
  /\ ~IsError(out)
  /\ column' = out.column
  /\ out' = None
  /\ UNCHANGED <<data_type, fitted, tableVars, threadVars, getTableVars>>

\* ColumnCompressorBase::_create_fitted_attribute_vector called on its own.
CreateFitted ==
  /\ fitted = None
  /\ \E n \in CountInputs, size \in 0..1 :
       fitted' = [unique_values_count |-> n,
                  vector |-> _create_fitted_attribute_vector(n, size)]
  /\ UNCHANGED <<column, data_type, out, tableVars, threadVars, getTableVars>>

NextColumn == CompressColumn \/ Recompress \/ CreateFitted

SpecColumn == InitColumn /\ [][NextColumn]_vars

\* ------------------------------------------------ specification: a table
\* The value column of type `type` at column k of chunk c: two rows, the
\* second column of a chunk is nullable with a null second row.
SampleColumn(type, c, k) ==
  IF k = 2
  THEN ValueColumn(type, <<c, 0>>, TRUE, <<FALSE, TRUE>>)
  ELSE ValueColumn(type, <<c + k, c>>, FALSE, <<>>)

\* A table of n columns (Int and Long alternating) and m chunks, no chunk
\* compressed yet, with or without MVCC columns.
SampleTable(n, m, mvcc) ==
  LET column_types == [k \in 1..n |-> IF k % 2 = 1 THEN "Int" ELSE "Long"]
  IN [column_types |-> column_types,
      chunks |-> [c \in 1..m |->
                    [columns |-> [k \in 1..n |-> SampleColumn(column_types[k], c, k)],
                     statistics |-> None,
                     mvcc |-> mvcc]]]

\* What the reads past the end of column_types may yield when the loop of
\* line 133 runs over column_count columns: one outcome per such column.
PastEnd(column_types, column_count) ==
  [(Len(column_types) + 1)..column_count -> DataTypes \cup {Unreadable}]

\* No read past the end happens.
NoPastEnd == <<>>

\* The type vectors a caller hands to compress_chunk for a table's chunk: the
\* table's own, or it with one entry changed, its last entry missing, or one
\* entry too many.
CallerColumnTypes(column_types) ==
  {column_types}
  \cup {[column_types EXCEPT ![k] = t] : k \in 1..Len(column_types), t \in DataTypes}
  \cup {SubSeq(column_types, 1, Len(column_types) - 1)}
  \cup {Append(column_types, t) : t \in DataTypes}

InitTable ==
  /\ \E n \in 1..MaxColumns, m \in 1..MaxChunks, mvcc \in {"none", "grown"} :
       table = SampleTable(n, m, mvcc)
  /\ is_debug \in BOOLEAN
  /\ last = None
  /\ column = None /\ data_type = None /\ out = None /\ fitted = None
  /\ worker = None /\ observed = None
  /\ storage = None /\ _excluded_chunks = None /\ results = None

\* The process is running: no call has ended in the process dying.
Alive == IF last = None THEN TRUE ELSE last.error # Segfault

\* DictionaryCompression::compress_table(table).
CompressTable ==
  /\ Alive
  /\ \E r \in {compress_table(table, is_debug, NoPastEnd)} :
        /\ table' = r.table
        /\ last' = [op |-> "compress_table", before |-> table, args |-> <<>>,
                     error |-> r.error, failed_chunk |-> r.failed_chunk,
                     failed_column |-> r.failed_column, ret |-> r.chunk_stats]
  /\ UNCHANGED <<is_debug, columnVars, threadVars, getTableVars>>

\* DictionaryCompression::compress_chunks(table, chunk_ids).
CompressChunks ==
  /\ Alive
  /\ \E chunk_ids \in SeqsUpTo(0..MaxChunks, MaxChunkIds) :
       \E r \in {compress_chunks(table, chunk_ids, is_debug, NoPastEnd)} :
          /\ table' = r.table
          /\ last' = [op |-> "compress_chunks", before |-> table,
                       args |-> <<chunk_ids>>,
                       error |-> r.error, failed_chunk |-> r.failed_chunk,
                       failed_column |-> r.failed_column, ret |-> r.chunk_stats]
  /\ UNCHANGED <<is_debug, columnVars, threadVars, getTableVars>>

\* DictionaryCompression::compress_chunk(column_types, chunk) called on one
\* of the table's chunks with a type vector of the caller's choosing.
CompressChunk ==
  /\ Alive
  /\ \E chunk_id \in 0..(Len(table.chunks) - 1),
        column_types \in CallerColumnTypes(table.column_types) :
     \E past_end \in PastEnd(column_types, Len(table.column_types)) :
       \E r \in {compress_chunk(column_types, table.chunks[chunk_id + 1],
                                 is_debug, past_end)} :
          /\ table' = [table EXCEPT !.chunks[chunk_id + 1] = r.chunk]
          /\ last' = [op |-> "compress_chunk", before |-> table,
                       args |-> <<column_types, chunk_id>>,
                       error |-> r.error, failed_chunk |-> chunk_id,
                       failed_column |-> r.failed_column, ret |-> r.ret]
  /\ UNCHANGED <<is_debug, columnVars, threadVars, getTableVars>>

NextTable == CompressTable \/ CompressChunks \/ CompressChunk

SpecTable == InitTable /\ [][NextTable]_vars

\* ------------------------ specification: compress_chunk and a reader
\* compress_chunk(table.column_types(), table.get_chunk(chunk_id)) runs on
\* one thread, one access to the chunk per step; a second thread reads a
\* chunk's columns and statistics (in one step, the best case for a reader).
IdleWorker ==
  [pc |-> "idle", chunk_id |-> NoId, column_id |-> 0, column_stats |-> <<>>,
   error |-> None]

InitThreads ==
  /\ \E n \in 1..MaxColumns, m \in 1..MaxChunks, mvcc \in {"none", "grown"} :
       table = SampleTable(n, m, mvcc)
  /\ is_debug \in BOOLEAN
  /\ last = None
  /\ worker = IdleWorker
  /\ observed = None
  /\ column = None /\ data_type = None /\ out = None /\ fitted = None
  /\ storage = None /\ _excluded_chunks = None /\ results = None

\* Lines 126-131: the call is entered; the DebugAssert holds, the types being
\* the table's own.
Begin ==
  /\ worker.pc = "idle"
  /\ \E chunk_id \in 0..(Len(table.chunks) - 1) :
       worker' = [IdleWorker EXCEPT !.pc = "loop", !.chunk_id = chunk_id]
  /\ UNCHANGED <<table, is_debug, last, observed, columnVars, getTableVars>>

\* Lines 133-138, one iteration: the column is read, compressed and replaced
\* in the chunk.
LoopIteration ==
  /\ worker.pc = "loop"
  /\ worker.column_id < Len(table.chunks[worker.chunk_id + 1].columns)
  /\ \E st \in {CompressChunkStep(
                   [chunk |-> table.chunks[worker.chunk_id + 1],
                    column_stats |-> worker.column_stats,
                    error |-> None, failed_column |-> NoId],
                   table.column_types, worker.column_id, NoPastEnd)} :
       /\ table' = [table EXCEPT !.chunks[worker.chunk_id + 1] = st.chunk]
       /\ worker' = IF st.error # None
                     THEN [IdleWorker EXCEPT !.error = st.error]
                     ELSE [worker EXCEPT !.column_id = worker.column_id + 1,
                                         !.column_stats = st.column_stats]
  /\ UNCHANGED <<is_debug, last, observed, columnVars, getTableVars>>

\* Lines 140-142, after the last iteration.
ShrinkMvccColumns ==
  /\ worker.pc = "loop"
  /\ worker.column_id = Len(table.chunks[worker.chunk_id + 1].columns)
  /\ table' = [table EXCEPT !.chunks[worker.chunk_id + 1] =
                                ShrinkMvcc(table.chunks[worker.chunk_id + 1])]
  /\ worker' = [worker EXCEPT !.pc = "statistics"]
  /\ UNCHANGED <<is_debug, last, observed, columnVars, getTableVars>>

\* Lines 144-147.
InstallStatistics ==
  /\ worker.pc = "statistics"
  /\ table' = [table EXCEPT !.chunks[worker.chunk_id + 1] =
                                SetStatistics(table.chunks[worker.chunk_id + 1],
                                              worker.column_stats)]
  /\ worker' = IdleWorker
  /\ UNCHANGED <<is_debug, last, observed, columnVars, getTableVars>>

\* compress_chunk has replaced a column of chunk_id and has not yet installed
\* the statistics.
InsideCompression(chunk_id) ==
  /\ worker.pc \in {"loop", "statistics"}
  /\ worker.chunk_id = chunk_id
  /\ worker.column_id >= 1

\* Another thread reads a chunk.
Read ==
  /\ \E chunk_id \in 0..(Len(table.chunks) - 1) :
       LET chunk == table.chunks[chunk_id + 1]
       IN observed' = [chunk_id |-> chunk_id,
                       kinds |-> [k \in 1..Len(chunk.columns) |-> chunk.columns[k].kind],
                       has_statistics |-> chunk.statistics # None,
                       inside |-> InsideCompression(chunk_id)]
  /\ UNCHANGED <<table, is_debug, last, worker, columnVars, getTableVars>>

NextThreads ==
  Begin \/ LoopIteration \/ ShrinkMvccColumns \/ InstallStatistics \/ Read

SpecThreads == InitThreads /\ [][NextThreads]_vars

\* ---------------------------------------------------------------- GetTable
\* std::optional.
Nullopt == [has_value |-> FALSE]
Some(v) == [has_value |-> TRUE, value |-> v]

\* PrunedChunks leaving the loop at the first excluded chunk.
RECURSIVE PrunedChunksBreak(_, _, _)
PrunedChunksBreak(original_table, excluded_chunks_set, chunk_id) ==
  IF chunk_id >= Len(original_table.chunks) THEN <<>>
  ELSE IF chunk_id \in excluded_chunks_set THEN <<>>
  ELSE <<original_table.chunks[chunk_id + 1]>>
       \o PrunedChunksBreak(original_table, excluded_chunks_set, chunk_id + 1)

\* Lines 44-49: the chunks emplaced into pruned_table from chunk_id on, the
\* very chunk objects of the original table.
RECURSIVE PrunedChunks(_, _, _)
PrunedChunks(original_table, excluded_chunks_set, chunk_id) ==
  IF chunk_id >= Len(original_table.chunks) THEN <<>>
  ELSE IF chunk_id \in excluded_chunks_set
       THEN PrunedChunks(original_table, excluded_chunks_set, chunk_id + 1)
       ELSE <<original_table.chunks[chunk_id + 1]>>
            \o PrunedChunks(original_table, excluded_chunks_set, chunk_id + 1)

\* _on_execute testing only whether _excluded_chunks is set.
on_execute_unless_nullopt(original_table, excluded_chunks, new_table) ==
  IF ~excluded_chunks.has_value
  THEN original_table
  ELSE [table |-> new_table,
        chunks |-> PrunedChunks(original_table, Range(excluded_chunks.value), 0)]

\* Lines 35-51: the table returned. A table is [table, chunks], `table` the
\* identity of the Table object and new_table that of the one line 42 makes.
_on_execute(original_table, excluded_chunks, new_table) ==
  IF ~excluded_chunks.has_value \/ excluded_chunks.value = <<>>
  THEN original_table
  ELSE [table |-> new_table,
        chunks |-> PrunedChunks(original_table, Range(excluded_chunks.value), 0)]

\* ----------------------------------------------- specification: GetTable
\* The stored table is object 0 and holds chunk objects 0, 1, ... in order;
\* the table built by the i-th execution is object i.
InitGetTable ==
  /\ \E n \in 0..MaxStoredChunks :
       storage = [table |-> 0, chunks |-> [i \in 1..n |-> i - 1]]
  /\ _excluded_chunks = Nullopt
  /\ results = <<>>
  /\ column = None /\ data_type = None /\ out = None /\ fitted = None
  /\ table = None /\ is_debug = FALSE /\ last = None
  /\ worker = None /\ observed = None

\* Lines 53-55.
set_excluded_chunks ==
  /\ \E excluded_chunks \in SeqsUpTo(0..MaxStoredChunks, MaxExcluded) :
       _excluded_chunks' = Some(excluded_chunks)
  /\ results' = <<>>
  /\ UNCHANGED <<storage, columnVars, tableVars, threadVars>>

\* GetTable::_on_execute().
Execute ==
  /\ Len(results) < MaxExecutions
  /\ results' = Append(results,
                        _on_execute(storage, _excluded_chunks, Len(results) + 1))
  /\ UNCHANGED <<storage, _excluded_chunks, columnVars, tableVars, threadVars>>

NextGetTable == set_excluded_chunks \/ Execute

SpecGetTable == InitGetTable /\ [][NextGetTable]_vars

\* ------------------------------------------------- claims on one column
\* out holds the dictionary column and statistics produced from `column`.
Compressed == out # None /\ ~IsError(out) /\ column.kind = "value"

IsNullRow(vc, i) == vc.nullable /\ vc.null_values[i]

NonNullRows(vc) == {i \in 1..Len(vc.values) : ~IsNullRow(vc, i)}

Dictionary == out.column.dictionary

Ids == out.column.attribute_vector.ids

Width == out.column.attribute_vector.width

Occurrences(s, v) == Cardinality({i \in 1..Len(s) : s[i] = v})

\* C1: decoding the dictionary column row by row reproduces the value column:
\* a null row has id NULL_VALUE_ID, any other row has an id >= 1 and
\* dictionary[id - 1] (0-based) is the row's original value.
C1_RoundTrip ==
  Compressed =>
    /\ Len(Ids) = Len(column.values)
    /\ \A i \in 1..Len(column.values) :
         IF IsNullRow(column, i)
         THEN Ids[i] = NULL_VALUE_ID
         ELSE /\ Ids[i] >= 1
              /\ Ids[i] <= Len(Dictionary)
              /\ Dictionary[Ids[i]] = column.values[i]

\* C2: the dictionary is strictly ascending and its entries are exactly the
\* values of the non-null rows; the null partition drops one entry per null
\* row and keeps every non-null row's value (with its multiplicity).
C2_DictionarySortedExact ==
  Compressed =>
    /\ \A i \in 1..(Len(Dictionary) - 1) : Dictionary[i] < Dictionary[i + 1]
    /\ Range(Dictionary) = {column.values[i] : i \in NonNullRows(column)}
    /\ column.nullable =>
         LET scratch == RemoveNulls(column.values, column.null_values)
         IN /\ Len(scratch) = Cardinality(NonNullRows(column))
            /\ \A v \in Range(column.values) :
                 Occurrences(scratch, v) =
                   Cardinality({i \in NonNullRows(column) : column.values[i] = v})

\* A null row precedes a non-null row, and a null row holds a value that no
\* non-null row holds (so the value is absent from the dictionary).
C2_Witness ==
  /\ Compressed
  /\ column.nullable
  /\ Dictionary # <<>>
  /\ \E i, j \in 1..Len(column.values) :
       i < j /\ IsNullRow(column, i) /\ ~IsNullRow(column, j)
  /\ \E i \in 1..Len(column.values) :
       IsNullRow(column, i) /\ column.values[i] \notin Range(Dictionary)

Representable(id, width) == id >= 0 /\ id < 2 ^ (8 * width)

\* C3 as stated: width 1 for a dictionary of at most 255 entries, 2 for at
\* most 65535, 4 otherwise, every id written being representable.
C3_WidthByDictionarySize ==
  Compressed =>
    /\ Width = IF Len(Dictionary) <= 255 THEN 1
               ELSE IF Len(Dictionary) <= 65535 THEN 2 ELSE 4
    /\ \A i \in 1..Len(Ids) : Representable(Ids[i], Width)

\* C3 amended: the width is decided by |dictionary| + 1: 1 byte when
\* |dictionary| + 1 <= 255, 2 bytes when |dictionary| + 1 <= 65535, 4 bytes
\* otherwise (likewise for any count handed to the fitting function), and
\* every id written is representable in that width.
C3_WidthByDictionarySizePlusOne ==
  /\ Compressed =>
       /\ Width = IF Len(Dictionary) + 1 <= 255 THEN 1
                  ELSE IF Len(Dictionary) + 1 <= 65535 THEN 2 ELSE 4
       /\ \A i \in 1..Len(Ids) : Representable(Ids[i], Width)
  /\ fitted # None =>
       fitted.vector.width = IF fitted.unique_values_count <= 255 THEN 1
                             ELSE IF fitted.unique_values_count <= 65535 THEN 2
                             ELSE 4

\* A dictionary of exactly 255 entries, stored with 2-byte ids.
C3_Witness == Compressed /\ Len(Dictionary) = 255 /\ Width = 2

\* C4: statistics are emitted exactly when some row is non-null; then min is
\* dictionary.front(), the smallest non-null value, and max is
\* dictionary.back(), the largest; otherwise no statistics, every id is
\* NULL_VALUE_ID and the width is 1.
C4_Statistics ==
  Compressed =>
    LET present == {column.values[i] : i \in NonNullRows(column)}
    IN /\ (out.stats # None) <=> (present # {})
       /\ (out.stats # None) <=> (Dictionary # <<>>)
       /\ out.stats # None =>
            /\ out.stats.min = Dictionary[1]
            /\ out.stats.max = Dictionary[Len(Dictionary)]
            /\ out.stats.min \in present /\ out.stats.max \in present
            /\ \A v \in present : out.stats.min <= v /\ v <= out.stats.max
       /\ out.stats = None =>
            /\ \A i \in 1..Len(Ids) : Ids[i] = NULL_VALUE_ID
            /\ Len(Ids) = Len(column.values)
            /\ Width = 1

\* Statistics with min < max from a column in which a null row holds a value
\* below min.
C4_Witness ==
  /\ Compressed
  /\ out.stats # None
  /\ out.stats.min < out.stats.max
  /\ \E i \in 1..Len(column.values) :
       IsNullRow(column, i) /\ column.values[i] < out.stats.min

\* ---------------------------------------------- claims on chunks and tables
ChunkCompressed(chunk) ==
  \A k \in 1..Len(chunk.columns) : chunk.columns[k].kind = "dict"

\* Every chunk of the table is a compressed chunk (and there is one).
TableCompressed(tbl) ==
  /\ Len(tbl.chunks) >= 1
  /\ \A c \in 1..Len(tbl.chunks) :
       Len(tbl.chunks[c].columns) >= 1 /\ ChunkCompressed(tbl.chunks[c])

Called(op) == IF last = None THEN FALSE ELSE last.op = op

\* C5: compress_table on a table whose chunks are compressed throws the
\* "already compressed" error at column 0 of chunk 0 and leaves every
\* chunk's columns and statistics as they were.
C5_RecompressTableFails ==
  (Called("compress_table") /\ TableCompressed(last.before)) =>
    /\ last.error = AssertColumn
    /\ last.failed_chunk = 0
    /\ last.failed_column = 0
    /\ table = last.before

\* compress_table was called on a compressed table of two chunks or more.
C5_Witness ==
  /\ Called("compress_table")
  /\ TableCompressed(last.before)
  /\ Len(last.before.chunks) >= 2
  /\ last.error = AssertColumn

\* C9: compress_chunk with a column_types of another length than the chunk's
\* column count reports the column count mismatch, in every build, and
\* leaves the chunk's columns and statistics unchanged.
C9_SchemaMismatchReported ==
  (Called("compress_chunk")
     /\ Len(last.args[1]) # Len(last.before.chunks[last.args[2] + 1].columns)) =>
    /\ last.error = AssertColumnCount
    /\ table = last.before

\* C10: when compress_chunk fails at a column k > 0, columns 0..k-1 of the
\* chunk are still the original value columns and no statistics are
\* installed.
C10_AllOrNothing ==
  (Called("compress_chunk") /\ last.error = AssertColumn /\ last.failed_column > 0) =>
    LET before == last.before.chunks[last.args[2] + 1]
        after == table.chunks[last.args[2] + 1]
    IN /\ \A k \in 1..last.failed_column : after.columns[k] = before.columns[k]
       /\ after.statistics = before.statistics

\* C8: no read interleaves between the first column replacement and the
\* installation of the statistics: a reader never sees a chunk with dictionary
\* and value columns side by side, nor one with every column replaced and the
\* new statistics missing.
C8_NoReadInsideCompression ==
  observed # None =>
    /\ ~observed.inside
    /\ \A j, k \in 1..Len(observed.kinds) : observed.kinds[j] = observed.kinds[k]
    /\ (\A k \in 1..Len(observed.kinds) : observed.kinds[k] = "dict")
         => observed.has_statistics

\* ------------------------------------------------------- claims on GetTable
FastPath == ~_excluded_chunks.has_value \/ _excluded_chunks.value = <<>>

ValidIds == 0..(Len(storage.chunks) - 1)

\* C6: with a non-empty exclusion list the table returned is a new table
\* whose chunks are the stored table's chunk objects with an id outside the
\* list, in their order; it has chunk_count - |excluded \cap valid ids| chunks;
\* the stored table keeps its chunk list.
C6_PrunedView ==
  ~FastPath =>
    /\ storage.chunks = [i \in 1..Len(storage.chunks) |-> i - 1]
    /\ \A e \in 1..Len(results) :
         LET excluded == Range(_excluded_chunks.value)
             kept(c) == c \notin excluded
         IN /\ results[e].table # storage.table
            /\ results[e].chunks = SelectSeq(storage.chunks, kept)
            /\ Len(results[e].chunks) =
                 Len(storage.chunks) - Cardinality(excluded \cap ValidIds)

\* Executed with a list that names a chunk twice and an id past the last
\* chunk, with two chunks or more returned.
C6_Witness ==
  /\ ~FastPath
  /\ Len(results) >= 1
  /\ \E i, j \in 1..Len(_excluded_chunks.value) :
       i # j /\ _excluded_chunks.value[i] = _excluded_chunks.value[j]
  /\ \E i \in 1..Len(_excluded_chunks.value) :
       _excluded_chunks.value[i] >= Len(storage.chunks)
  /\ Len(results[Len(results)].chunks) >= 2

\* C7: with no exclusion list, or an empty one, every execution returns the
\* stored table itself, so repeated executions return the same table.
C7_FastPathReturnsOriginal ==
  FastPath =>
    /\ \A e \in 1..Len(results) : results[e] = storage
    /\ \A e, f \in 1..Len(results) : results[e] = results[f]

\* Executed twice after set_excluded_chunks was called with an empty list.
C7_Witness ==
  /\ _excluded_chunks = Some(<<>>)
  /\ Len(results) >= 2
  /\ Len(storage.chunks) >= 1

====
